---- MODULE Spec2Model ----
(***************************************************************************)
(* Model of src/utils/csv.ts: jsonToCsv (a pure, synchronous conversion of *)
(* a parsed JSON value into CSV text) and convertJsonFileToCsv (read,      *)
(* parse, convert, write, log inside one try/catch).                       *)
(*                                                                         *)
(* Text is a sequence of one-character strings.  A JavaScript value is a   *)
(* tagged record: undefined, null, boolean, number, string, object (an     *)
(* ordered sequence of <<key, value>> pairs, the key order being the       *)
(* object's own key order) or array.  Numbers are non-negative decimals    *)
(* with one fractional digit, held in tenths: 85 is 8.5 and 20 is 2.       *)
(***************************************************************************)
EXTENDS Integers, Sequences, FiniteSets

\* Largest number of elements of an input array.
MaxRecords == 2

\* length of Array.from({ length: 8 }, ...)
NumSems == 8

-----------------------------------------------------------------------------
(* JavaScript values *)

Undefined == [t |-> "undef"]
Null      == [t |-> "null"]
Bool(b)   == [t |-> "bool", b |-> b]
Num(n)    == [t |-> "num", n |-> n]
Str(s)    == [t |-> "str", s |-> s]
Obj(kv)   == [t |-> "obj", kv |-> kv]
Arr(a)    == [t |-> "arr", a |-> a]

IsNullish(v) == v.t \in {"undef", "null"}

\* ToBoolean, as applied by the || operator
ToBoolean(v) ==
    CASE v.t = "undef" -> FALSE
      [] v.t = "null"  -> FALSE
      [] v.t = "bool"  -> v.b
      [] v.t = "num"   -> v.n # 0
      [] v.t = "str"   -> v.s # <<>>
      [] OTHER         -> TRUE

\* value || ""
OrEmpty(v) == IF ToBoolean(v) THEN v ELSE Str(<<>>)

DigitChar(d) == <<"0", "1", "2", "3", "4", "5", "6", "7", "8", "9">>[d + 1]

RECURSIVE IntDigits(_)
IntDigits(n) == IF n < 10 THEN <<DigitChar(n)>>
                ELSE IntDigits(n \div 10) \o <<DigitChar(n % 10)>>

\* Number::toString of a number held in tenths
NumberToString(n) ==
    IntDigits(n \div 10) \o (IF n % 10 = 0 THEN <<>> ELSE <<".", DigitChar(n % 10)>>)

\* own property keys of an object, in the object's key order
PairKeys(kv) == [i \in 1..Len(kv) |-> kv[i][1]]

HasKey(kv, k) == \E i \in 1..Len(kv) : kv[i][1] = k

Lookup(kv, k) == kv[CHOOSE i \in 1..Len(kv) : kv[i][1] = k][2]

IndexKeys(n) == [i \in 1..n |-> IntDigits(i - 1)]

\* Object.keys(v); throws a TypeError on undefined and null
ObjectKeys(v) ==
    CASE IsNullish(v) -> [ok |-> FALSE, keys |-> <<>>]
      [] v.t = "obj"  -> [ok |-> TRUE, keys |-> PairKeys(v.kv)]
      [] v.t = "str"  -> [ok |-> TRUE, keys |-> IndexKeys(Len(v.s))]
      [] v.t = "arr"  -> [ok |-> TRUE, keys |-> IndexKeys(Len(v.a))]
      [] OTHER        -> [ok |-> TRUE, keys |-> <<>>]

K_length == <<"l", "e", "n", "g", "t", "h">>

\* v[k] on a value that is neither undefined nor null
Get(v, k) ==
    CASE v.t = "obj" -> IF HasKey(v.kv, k) THEN Lookup(v.kv, k) ELSE Undefined
      [] v.t = "str" ->
            IF k = K_length THEN Num(10 * Len(v.s))
            ELSE IF \E i \in 1..Len(v.s) : IntDigits(i - 1) = k
                 THEN Str(<<v.s[CHOOSE i \in 1..Len(v.s) : IntDigits(i - 1) = k]>>)
                 ELSE Undefined
      [] v.t = "arr" ->
            IF k = K_length THEN Num(10 * Len(v.a))
            ELSE IF \E i \in 1..Len(v.a) : IntDigits(i - 1) = k
                 THEN v.a[CHOOSE i \in 1..Len(v.a) : IntDigits(i - 1) = k]
                 ELSE Undefined
      [] OTHER -> Undefined

-----------------------------------------------------------------------------
(* Text *)

RECURSIVE Flatten(_)
Flatten(ss) == IF ss = <<>> THEN <<>> ELSE Head(ss) \o Flatten(Tail(ss))

\* Array.prototype.join
RECURSIVE Join(_, _)
Join(ss, sep) ==
    IF ss = <<>> THEN <<>>
    ELSE IF Len(ss) = 1 THEN ss[1]
    ELSE ss[1] \o sep \o Join(Tail(ss), sep)

\* String.prototype.split on a one-character separator
RECURSIVE Split(_, _)
Split(s, sep) ==
    IF \A i \in 1..Len(s) : s[i] # sep THEN <<s>>
    ELSE LET p == CHOOSE i \in 1..Len(s) :
                     s[i] = sep /\ \A j \in 1..(i - 1) : s[j] # sep
         IN  <<SubSeq(s, 1, p - 1)>> \o Split(SubSeq(s, p + 1, Len(s)), sep)

\* QuoteJSONString's escape of one character
EscapeChar(c) ==
    CASE c = "\"" -> <<"\\", "\"">>
      [] c = "\\" -> <<"\\", "\\">>
      [] c = "\n" -> <<"\\", "n">>
      [] OTHER    -> <<c>>

QuoteJSONString(s) ==
    <<"\"">> \o Flatten([i \in 1..Len(s) |-> EscapeChar(s[i])]) \o <<"\"">>

\* JSON.stringify of one value (never called on undefined here: see OrEmpty)
RECURSIVE JSONstringify(_)
JSONstringify(v) ==
    CASE v.t = "str"  -> QuoteJSONString(v.s)
      [] v.t = "num"  -> NumberToString(v.n)
      [] v.t = "bool" -> IF v.b THEN <<"t", "r", "u", "e">>
                                ELSE <<"f", "a", "l", "s", "e">>
      [] v.t = "obj"  ->
            <<"{">> \o
            Join([i \in 1..Len(v.kv) |->
                     QuoteJSONString(v.kv[i][1]) \o <<":">> \o JSONstringify(v.kv[i][2])],
                 <<",">>) \o <<"}">>
      [] v.t = "arr"  ->
            <<"[">> \o Join([i \in 1..Len(v.a) |-> JSONstringify(v.a[i])], <<",">>) \o <<"]">>
      [] OTHER        -> <<"n", "u", "l", "l">>

-----------------------------------------------------------------------------
(* String.prototype.localeCompare: multi-level collation.  The primary     *)
(* level orders punctuation before digits before letters and ignores case; *)
(* the tertiary level breaks primary ties, lower case before upper case.   *)

LowerCase == <<"a", "b", "c", "d", "e", "f", "g", "h", "i", "j", "k", "l", "m",
               "n", "o", "p", "q", "r", "s", "t", "u", "v", "w", "x", "y", "z">>
UpperCase == <<"A", "B", "C", "D", "E", "F", "G", "H", "I", "J", "K", "L", "M",
               "N", "O", "P", "Q", "R", "S", "T", "U", "V", "W", "X", "Y", "Z">>
Digits    == <<"0", "1", "2", "3", "4", "5", "6", "7", "8", "9">>

IndexIn(c, alphabet) ==
    IF \E i \in 1..Len(alphabet) : alphabet[i] = c
    THEN CHOOSE i \in 1..Len(alphabet) : alphabet[i] = c
    ELSE 0

PrimaryWeight(c) ==
    IF IndexIn(c, Digits) > 0 THEN IndexIn(c, Digits)
    ELSE IF IndexIn(c, LowerCase) > 0 THEN 10 + IndexIn(c, LowerCase)
    ELSE IF IndexIn(c, UpperCase) > 0 THEN 10 + IndexIn(c, UpperCase)
    ELSE 0

TertiaryWeight(c) == IF IndexIn(c, UpperCase) > 0 THEN 1 ELSE 0

\* lexicographic comparison of two weight sequences: -1, 0 or 1
RECURSIVE LexCompare(_, _)
LexCompare(u, w) ==
    IF u = <<>> THEN (IF w = <<>> THEN 0 ELSE -1)
    ELSE IF w = <<>> THEN 1
    ELSE IF Head(u) < Head(w) THEN -1
    ELSE IF Head(u) > Head(w) THEN 1
    ELSE LexCompare(Tail(u), Tail(w))

LocaleCompare(s, that) ==
    LET p == LexCompare([i \in 1..Len(s) |-> PrimaryWeight(s[i])],
                        [i \in 1..Len(that) |-> PrimaryWeight(that[i])])
    IN  IF p # 0 THEN p
        ELSE LexCompare([i \in 1..Len(s) |-> TertiaryWeight(s[i])],
                        [i \in 1..Len(that) |-> TertiaryWeight(that[i])])

\* ToString of the argument of localeCompare
ToString(v) ==
    CASE v.t = "str"   -> v.s
      [] v.t = "num"   -> NumberToString(v.n)
      [] v.t = "undef" -> <<"u", "n", "d", "e", "f", "i", "n", "e", "d">>
      [] v.t = "null"  -> <<"n", "u", "l", "l">>
      [] v.t = "bool"  -> JSONstringify(v)
      [] OTHER         -> <<"[", "o", "b", "j", "e", "c", "t", " ",
                            "O", "b", "j", "e", "c", "t", "]">>

-----------------------------------------------------------------------------
(* jsonToCsv *)

K_rollNo        == <<"r", "o", "l", "l", "N", "o">>
K_SGPA          == <<"S", "G", "P", "A">>
K_instituteName == <<"i", "n", "s", "t", "i", "t", "u", "t", "e", "N", "a", "m", "e">>

\* the cell of an absent or falsy value: JSON.stringify("")
EmptyCell == <<"\"", "\"">>

\* a.rollNo.localeCompare(b.rollNo): the ascending comparator
CompareAscending(a, b) ==
    IF IsNullish(a) \/ IsNullish(b) THEN [ok |-> FALSE, r |-> 0]
    ELSE IF Get(a, K_rollNo).t # "str" THEN [ok |-> FALSE, r |-> 0]
    ELSE [ok |-> TRUE,
          r |-> LocaleCompare(Get(a, K_rollNo).s, ToString(Get(b, K_rollNo)))]

\* (a, b) => b.rollNo.localeCompare(a.rollNo); a TypeError when a or b is
\* undefined or null, or when b.rollNo is not a string
Compare(a, b) ==
    IF IsNullish(a) \/ IsNullish(b) THEN [ok |-> FALSE, r |-> 0]
    ELSE IF Get(b, K_rollNo).t # "str" THEN [ok |-> FALSE, r |-> 0]
    ELSE [ok |-> TRUE,
          r |-> LocaleCompare(Get(b, K_rollNo).s, ToString(Get(a, K_rollNo)))]

\* insert x behind every element that does not sort after it
InsertSorted(sorted, x) ==
    LET after == {i \in 1..Len(sorted) : Compare(sorted[i], x).r > 0}
        p     == IF after = {} THEN Len(sorted) + 1
                 ELSE CHOOSE i \in after : \A j \in after : i <= j
    IN  SubSeq(sorted, 1, p - 1) \o <<x>> \o SubSeq(sorted, p, Len(sorted))

\* the stable sort of a sequence every pair of which the comparator accepts
RECURSIVE StableSort(_)
StableSort(a) ==
    IF Len(a) <= 1 THEN a
    ELSE InsertSorted(StableSort(SubSeq(a, 1, Len(a) - 1)), a[Len(a)])

Permutations(n) == {p \in [1..n -> 1..n] : \A i, j \in 1..n : p[i] = p[j] => i = j}

\* jsonData.sort(comparator), in place.  Which pairs the engine hands to the
\* comparator, and in which order, is implementation-defined: with fewer than
\* two elements it is never called; when it accepts every pair the result is
\* the stable sort; otherwise the call may throw, or (when no element is null
\* and some element has a text rollNo) return the elements in some order.
SortOutcomes(a) ==
    LET n       == Len(a)
        accepts == \A i, j \in 1..n : i # j => Compare(a[i], a[j]).ok
        avoids  == /\ \A i \in 1..n : ~IsNullish(a[i])
                   /\ \E i \in 1..n : Get(a[i], K_rollNo).t = "str"
    IN  IF n <= 1 THEN {[ok |-> TRUE, a |-> a]}
        ELSE IF accepts THEN {[ok |-> TRUE, a |-> StableSort(a)]}
        ELSE {[ok |-> FALSE, a |-> a]} \cup
             (IF avoids
              THEN {[ok |-> TRUE, a |-> [i \in 1..n |-> a[p[i]]]] : p \in Permutations(n)}
              ELSE {})

\* Object.keys(jsonData[0]) without the filter
AllKeys(keys) == keys

\* .filter(key => key !== "SGPA" && key !== "instituteName")
RECURSIVE BaseHeaders(_)
BaseHeaders(keys) ==
    IF keys = <<>> THEN <<>>
    ELSE IF Head(keys) # K_SGPA /\ Head(keys) # K_instituteName
         THEN <<Head(keys)>> \o BaseHeaders(Tail(keys))
         ELSE BaseHeaders(Tail(keys))

\* Array.from({ length: 8 }, (_, i) => `SGPA_sem${i + 1}`)
SgpaHeaders ==
    [i \in 1..NumSems |-> K_SGPA \o <<"_", "s", "e", "m">> \o IntDigits(i)]

\* [...baseHeaders, ...sgpaHeaders, "instituteName"]
Headers(baseHeaders) == baseHeaders \o SgpaHeaders \o <<K_instituteName>>

\* row.SGPA[semester], without the optional chaining
SgpaValueUnchained(row, semester) ==
    IF IsNullish(Get(row, K_SGPA)) THEN [ok |-> FALSE, v |-> Undefined]
    ELSE [ok |-> TRUE, v |-> Get(Get(row, K_SGPA), semester)]

\* row.SGPA?.[semester]
SgpaValue(row, semester) ==
    IF IsNullish(Get(row, K_SGPA)) THEN [ok |-> TRUE, v |-> Undefined]
    ELSE [ok |-> TRUE, v |-> Get(Get(row, K_SGPA), semester)]

\* JSON.stringify(String(value || "")): every value as quoted text
CellAsText(v) == QuoteJSONString(ToString(OrEmpty(v)))

\* JSON.stringify(value || "")
Cell(v) == JSONstringify(OrEmpty(v))

\* the callback of jsonData.map: the cells of one row, and whether it threw
RowCells(row, baseHeaders) ==
    IF IsNullish(row) THEN [ok |-> FALSE, cells |-> <<>>]
    ELSE LET rowData  == [i \in 1..Len(baseHeaders) |-> Cell(Get(row, baseHeaders[i]))]
             semester(h) == Split(h, "_")[2]
             sgpa     == [i \in 1..NumSems |-> SgpaValue(row, semester(SgpaHeaders[i]))]
             sgpaData == [i \in 1..NumSems |-> Cell(sgpa[i].v)]
             instituteNameData == Cell(Get(row, K_instituteName))
         IN  [ok    |-> \A i \in 1..NumSems : sgpa[i].ok,
              cells |-> rowData \o sgpaData \o <<instituteNameData>>]

\* jsonData[0]
First(a) == IF a = <<>> THEN Undefined ELSE a[1]

\* jsonData.length < 0
LengthBelowZero(jsonData) ==
    Get(jsonData, K_length).t = "num" /\ Get(jsonData, K_length).n < 0

\* jsonData.length === 0
IsEmptyInput(jsonData) == Get(jsonData, K_length) = Num(0)

\* csvRows.join("\n"): the assembly without the header row
RowsOnly(headers, csvRows) == Join(csvRows, <<"\n">>)

\* [headers.join(","), ...csvRows].join("\n")
CsvText(headers, csvRows) == Join(<<Join(headers, <<",">>)>> \o csvRows, <<"\n">>)

Thrown(jsonData) ==
    [ok |-> FALSE, jsonData |-> jsonData, headers |-> <<>>, csvRows |-> <<>>, csv |-> <<>>]

Returned(jsonData, hs, rows, text) ==
    [ok |-> TRUE, jsonData |-> jsonData, headers |-> hs, csvRows |-> rows, csv |-> text]

\* lines 19-43, on the outcome of the sort
AfterSort(sorted) ==
    IF ~sorted.ok \/ ~ObjectKeys(First(sorted.a)).ok THEN Thrown(Arr(sorted.a))
    ELSE LET baseHeaders == BaseHeaders(ObjectKeys(First(sorted.a)).keys)
             rows == [i \in 1..Len(sorted.a) |-> RowCells(sorted.a[i], baseHeaders)]
         IN  IF \E i \in 1..Len(sorted.a) : ~rows[i].ok THEN Thrown(Arr(sorted.a))
             ELSE LET csvRows == [i \in 1..Len(sorted.a) |-> Join(rows[i].cells, <<",">>)]
                  IN  Returned(Arr(sorted.a), Headers(baseHeaders), csvRows,
                               CsvText(Headers(baseHeaders), csvRows))

\* jsonToCsv(jsonData): every result the call can have.  Reading .length of
\* null throws; a value without a sort method (anything but an array) throws.
JsonToCsv(jsonData) ==
    IF IsNullish(jsonData) THEN {Thrown(jsonData)}
    ELSE IF IsEmptyInput(jsonData) THEN {Returned(jsonData, <<>>, <<>>, <<>>)}
    ELSE IF jsonData.t # "arr" THEN {Thrown(jsonData)}
    ELSE {AfterSort(sorted) : sorted \in SortOutcomes(jsonData.a)}

-----------------------------------------------------------------------------
(* The input files *)

K_year == <<"y", "e", "a", "r">>
K_sem(i) == <<"s", "e", "m">> \o IntDigits(i)

A1 == <<"A", "1">>
A3 == <<"A", "3">>
a1 == <<"a", "1">>
B2 == <<"B", "2">>

\* two key orders: rollNo first, and instituteName and SGPA first
FirstOrder == <<K_rollNo, K_year, K_SGPA, K_instituteName>>
LastOrder  == <<K_instituteName, K_SGPA, K_year, K_rollNo>>

\* the object with the given key order; a field of value Undefined is absent
MkRecord(order, rollNo, year, sgpa, instituteName) ==
    LET val(k) == CASE k = K_rollNo -> rollNo
                    [] k = K_year   -> year
                    [] k = K_SGPA   -> sgpa
                    [] OTHER        -> instituteName
    IN  Obj(SelectSeq([i \in 1..Len(order) |-> <<order[i], val(order[i])>>],
                      LAMBDA kv : kv[2] # Undefined))

SgpaOne   == Obj(<< <<K_sem(1), Num(85)>> >>)
SgpaZero  == Obj(<< <<K_sem(1), Num(0)>>, <<K_sem(8), Str(<<"9">>)>> >>)
SgpaEmpty == Obj(<<>>)

\* records that differ in rollNo, in key order, in the year field, in SGPA
\* and in instituteName
Records ==
    {MkRecord(FirstOrder, r, Num(20), SgpaOne, Str(<<"X">>)) :
        r \in {Undefined, Str(A1), Str(A3), Str(a1), Str(B2)}}
    \cup
    {MkRecord(LastOrder, r, Num(20), SgpaOne, Str(<<"X">>)) : r \in {Str(A1), Str(B2)}}
    \cup
    {MkRecord(FirstOrder, Str(A1), y, SgpaOne, Str(<<"X">>)) :
        y \in {Undefined, Null, Num(0), Bool(FALSE), Bool(TRUE), Str(<<"q", "\"", "\n">>)}}
    \cup
    {MkRecord(FirstOrder, Str(A3), Num(20), g, Str(<<"Y">>)) :
        g \in {Undefined, Null, SgpaEmpty, SgpaZero}}
    \cup
    {MkRecord(FirstOrder, Str(A3), Num(20), Undefined, Undefined)}

\* what a JSON array can hold besides records
Elements == Records \cup {Null, Num(10), Str(<<"a", "b">>)}

Arrays == UNION {[1..n -> Elements] : n \in 0..MaxRecords}

JsonValues ==
    {Null, Num(10), Bool(TRUE), Str(<<>>), Str(<<"a", "b">>),
     MkRecord(FirstOrder, Str(A1), Num(20), SgpaOne, Str(<<"X">>))}
    \cup {Arr(a) : a \in Arrays}

\* the text of a file: the encoding of a JSON value, or text that is no JSON
Malformed == [wf |-> FALSE, v |-> Undefined]
Documents == {Malformed} \cup {[wf |-> TRUE, v |-> v] : v \in JsonValues}

\* JSON.parse(data); a SyntaxError on text that is no JSON
JSONparse(text) == [ok |-> text.wf, v |-> text.v]

OldContent == <<"o", "l", "d">>

\* fs.writeFile(path, text): the file holds the text once the call resolves;
\* when it rejects the file is as before (it could not be opened), empty
\* (opened and truncated) or holds part of the text
WriteOutcomes(old, text) ==
    {[ok |-> TRUE, file |-> text]} \cup
    {[ok |-> FALSE, file |-> f] : f \in {old, <<>>, SubSeq(text, 1, Len(text) \div 2)}}

-----------------------------------------------------------------------------
(* convertJsonFileToCsv *)

VARIABLES
    inFile,     \* the text of the file at inputFilePath
    outFile,    \* the text of the file at outputFilePath
    pc,         \* the statement the call is at
    data,       \* const data
    jsonData,   \* const jsonData, sorted in place by jsonToCsv
    headers,    \* const headers of jsonToCsv
    csvRows,    \* const csvRows of jsonToCsv
    csvData,    \* const csvData
    error,      \* the statement that threw, "none" when none did
    console,    \* what has been logged: "log" and "error" entries
    rejected,   \* the promise of the call is rejected
    steps       \* the statements completed so far, in order, with their outcome

vars == <<inFile, outFile, pc, data, jsonData, headers, csvRows, csvData,
          error, console, rejected, steps>>

\* the statements in an order that logs before the write is awaited
LogBeforeWrite(step) ==
    CASE step = "read"    -> "parse"
      [] step = "parse"   -> "convert"
      [] step = "convert" -> "log"
      [] step = "log"     -> "write"
      [] OTHER            -> "done"

\* the statement that follows a statement that completed normally
NextStep(step) ==
    CASE step = "read"    -> "parse"
      [] step = "parse"   -> "convert"
      [] step = "convert" -> "write"
      [] step = "write"   -> "log"
      [] OTHER            -> "done"

\* a try block that ends before the write
TryEndsBeforeWrite(step) == step \in {"read", "parse", "convert"}

\* the statements inside the try block
InTry(step) == step \in {"read", "parse", "convert", "write", "log"}

\* a statement throws: control moves to the catch clause when the statement
\* is inside the try block, and the promise is rejected otherwise
Throw(step) ==
    /\ error' = step
    /\ steps' = Append(steps, <<step, FALSE>>)
    /\ IF InTry(step) THEN pc' = "catch" /\ UNCHANGED rejected
       ELSE pc' = "done" /\ rejected' = TRUE

Complete(step) ==
    /\ steps' = Append(steps, <<step, TRUE>>)
    /\ pc' = NextStep(step)
    /\ UNCHANGED <<error, rejected>>

Init ==
    /\ inFile \in Documents
    /\ outFile = OldContent
    /\ pc = "read"
    /\ data = Malformed
    /\ jsonData = Undefined
    /\ headers = <<>>
    /\ csvRows = <<>>
    /\ csvData = <<>>
    /\ error = "none"
    /\ console = <<>>
    /\ rejected = FALSE
    /\ steps = <<>>

\* const data = await fs.readFile(inputFilePath, "utf-8")
Read ==
    /\ pc = "read"
    /\ \E ok \in BOOLEAN :
          IF ok THEN data' = inFile /\ Complete("read")
          ELSE UNCHANGED data /\ Throw("read")
    /\ UNCHANGED <<inFile, outFile, jsonData, headers, csvRows, csvData, console>>

\* const jsonData = JSON.parse(data)
Parse ==
    /\ pc = "parse"
    /\ IF JSONparse(data).ok
       THEN jsonData' = JSONparse(data).v /\ Complete("parse")
       ELSE UNCHANGED jsonData /\ Throw("parse")
    /\ UNCHANGED <<inFile, outFile, data, headers, csvRows, csvData, console>>

\* const csvData = jsonToCsv(jsonData)
Convert ==
    /\ pc = "convert"
    /\ \E r \in JsonToCsv(jsonData) :
          /\ jsonData' = r.jsonData
          /\ headers' = r.headers
          /\ csvRows' = r.csvRows
          /\ IF r.ok THEN csvData' = r.csv /\ Complete("convert")
             ELSE UNCHANGED csvData /\ Throw("convert")
    /\ UNCHANGED <<inFile, outFile, data, console>>

\* await fs.writeFile(outputFilePath, csvData, "utf-8")
Write ==
    /\ pc = "write"
    /\ \E w \in WriteOutcomes(outFile, csvData) :
          /\ outFile' = w.file
          /\ IF w.ok THEN Complete("write") ELSE Throw("write")
    /\ UNCHANGED <<inFile, data, jsonData, headers, csvRows, csvData, console>>

\* console.log(`CSV file has been saved to ${outputFilePath}`)
LogSuccess ==
    /\ pc = "log"
    /\ console' = Append(console, "log")
    /\ Complete("log")
    /\ UNCHANGED <<inFile, outFile, data, jsonData, headers, csvRows, csvData>>

\* catch (error) { console.error("Error converting JSON to CSV:", error) }
Catch ==
    /\ pc = "catch"
    /\ console' = Append(console, "error")
    /\ pc' = "done"
    /\ UNCHANGED <<inFile, outFile, data, jsonData, headers, csvRows, csvData,
                   error, rejected, steps>>

Next == Read \/ Parse \/ Convert \/ Write \/ LogSuccess \/ Catch

Spec == Init /\ [][Next]_vars

-----------------------------------------------------------------------------
(* What the properties below talk about *)

StepDone(step, ok) == \E i \in 1..Len(steps) : steps[i] = <<step, ok>>

Attempted(step) == \E i \in 1..Len(steps) : steps[i][1] = step

\* the input file holds a JSON array
InputIsArray == inFile.wf /\ inFile.v.t = "arr"

\* every element is an object with a text rollNo
RecordCollection(a) ==
    \A i \in 1..Len(a) : a[i].t = "obj" /\ Get(a[i], K_rollNo).t = "str"

\* the conversion of a non-empty array has just returned (its result does
\* not change afterwards)
ConvertedRows ==
    /\ Len(steps) = 3
    /\ steps[3] = <<"convert", TRUE>>
    /\ InputIsArray
    /\ Len(inFile.v.a) >= 1

\* the output text read back: the cells of each line, the header line first
OutputTable ==
    LET lines == Split(csvData, "\n")
    IN  [i \in 1..Len(lines) |-> Split(lines[i], ",")]

\* the number of base headers of a table
BaseCount(T) == Len(T[1]) - (NumSems + 1)

\* the column of a header, 0 when there is none
Column(T, h) == IF \E j \in 1..Len(T[1]) : T[1][j] = h
                THEN CHOOSE j \in 1..Len(T[1]) : T[1][j] = h
                ELSE 0

\* the text between the quotes of a cell
Unquote(cell) == SubSeq(cell, 2, Len(cell) - 1)

IsQuoted(cell) == Len(cell) >= 2 /\ cell[1] = "\"" /\ cell[Len(cell)] = "\""

\* the value that column j of data row i is made from: a base field, a
\* semester of SGPA, or instituteName
SourceValue(T, i, j) ==
    LET row == jsonData.a[i]
    IN  IF j <= BaseCount(T) THEN Get(row, T[1][j])
        ELSE IF j <= BaseCount(T) + NumSems
             THEN (IF IsNullish(Get(row, K_SGPA)) THEN Undefined
                   ELSE Get(Get(row, K_SGPA), K_sem(j - BaseCount(T))))
             ELSE Get(row, K_instituteName)

\* the data rows whose element is an object
ObjectRows == {i \in 1..Len(jsonData.a) : jsonData.a[i].t = "obj"}

-----------------------------------------------------------------------------
\* C1: for an input array of records that all carry a text rollNo, the data
\* rows of the output are in descending rollNo order under the comparison the
\* sort uses (localeCompare), adjacent rows satisfying rollNo(i) >= rollNo(i+1),
\* and the rows are a permutation of the rows of the input records.
C1_SortedDescending ==
    (Len(steps) = 3 /\ InputIsArray /\ Len(inFile.v.a) >= 1
        /\ RecordCollection(inFile.v.a)) =>
    LET T     == OutputTable
        input == inFile.v.a
        n     == Len(input)
        col   == Column(T, K_rollNo)
        base  == SubSeq(T[1], 1, BaseCount(T))
    IN  /\ steps[3] = <<"convert", TRUE>>
        /\ Len(T) = n + 1
        /\ col > 0
        /\ \A i \in 1..(n - 1) :
              LocaleCompare(Unquote(T[i + 1][col]), Unquote(T[i + 2][col])) >= 0
        /\ \E p \in Permutations(n) :
              \A i \in 1..n : T[i + 1] = RowCells(input[p[i]], base).cells

\* two records arrive in ascending order, a1 before B2 (an order the code
\* units of the two texts do not give), and B2 is the first data row
C1_Witness ==
    /\ ConvertedRows
    /\ Len(inFile.v.a) = 2
    /\ RecordCollection(inFile.v.a)
    /\ Get(inFile.v.a[1], K_rollNo) = Str(a1)
    /\ Get(inFile.v.a[2], K_rollNo) = Str(B2)
    /\ LET T == OutputTable
       IN  /\ Unquote(T[2][Column(T, K_rollNo)]) = B2
           /\ Unquote(T[3][Column(T, K_rollNo)]) = a1

\* C2: for a non-empty input array the output has exactly one header line and
\* one line per element, (number of elements + 1) lines in all; on an array of
\* records with a text rollNo the conversion always returns.
C2_RowCount ==
    /\ ConvertedRows =>
          LET T == OutputTable
          IN  /\ Len(T) = Len(inFile.v.a) + 1
              /\ Len(csvRows) = Len(inFile.v.a)
              /\ T[1] = headers
    /\ (Attempted("convert") /\ InputIsArray /\ RecordCollection(inFile.v.a)) =>
          StepDone("convert", TRUE)

\* two records, one of them holding a text with a line break in it
C2_Witness ==
    /\ ConvertedRows
    /\ Len(inFile.v.a) = 2
    /\ \E i \in 1..2 : inFile.v.a[i].t = "obj"
                       /\ Get(inFile.v.a[i], K_year) = Str(<<"q", "\"", "\n">>)
    /\ Len(OutputTable) = 3

\* C3: for a non-empty array of objects, whatever their key order and key set,
\* the last nine header cells are SGPA_sem1 .. SGPA_sem8 then instituteName,
\* and neither SGPA nor instituteName is among the headers before them.
C3_HeaderTail ==
    (ConvertedRows /\ \A i \in 1..Len(inFile.v.a) : inFile.v.a[i].t = "obj") =>
    LET T == OutputTable
    IN  /\ BaseCount(T) >= 0
        /\ \A k \in 1..NumSems :
              T[1][BaseCount(T) + k] = K_SGPA \o <<"_">> \o K_sem(k)
        /\ T[1][Len(T[1])] = K_instituteName
        /\ \A j \in 1..BaseCount(T) : T[1][j] \notin {K_SGPA, K_instituteName}

\* the first record of the sorted array has instituteName and SGPA as its
\* first two keys
C3_Witness ==
    /\ ConvertedRows
    /\ jsonData.a[1].t = "obj"
    /\ Len(jsonData.a[1].kv) = 4
    /\ jsonData.a[1].kv[1][1] = K_instituteName
    /\ jsonData.a[1].kv[2][1] = K_SGPA
    /\ Len(OutputTable[1]) = 11

\* C4: on the empty array jsonToCsv returns the empty text, with no header
\* row; convertJsonFileToCsv on a file holding [] hands the empty text to the
\* write, which leaves a zero-byte file, and logs the success message (when
\* the file system performs the read and the write).
C4_EmptyInput ==
    (inFile.wf /\ inFile.v = Arr(<<>>)) =>
        /\ Attempted("convert") => StepDone("convert", TRUE) /\ csvData = <<>>
        /\ StepDone("write", TRUE) => outFile = <<>>
        /\ (pc = "done" /\ StepDone("write", TRUE)) => console = <<"log">>

C4_Witness ==
    /\ inFile.wf /\ inFile.v = Arr(<<>>)
    /\ pc = "done"
    /\ StepDone("convert", TRUE)
    /\ outFile = <<>>
    /\ console = <<"log">>

C6_MissingSgpa ==
    /\ ConvertedRows =>
          LET T == OutputTable IN
          \A i \in ObjectRows :
              Get(jsonData.a[i], K_SGPA) = Undefined =>
                  /\ Len(T[i + 1]) = BaseCount(T) + NumSems + 1
                  /\ \A k \in 1..NumSems : T[i + 1][BaseCount(T) + k] = EmptyCell
    /\ (Attempted("convert") /\ InputIsArray /\ RecordCollection(inFile.v.a)) =>
          StepDone("convert", TRUE)

C6_Witness ==
    /\ ConvertedRows
    /\ RecordCollection(inFile.v.a)
    /\ LET T == OutputTable IN
       \E i \in ObjectRows :
          /\ Get(jsonData.a[i], K_SGPA) = Undefined
          /\ Get(jsonData.a[i], K_instituteName) = Str(<<"Y">>)
          /\ T[i + 1][BaseCount(T) + NumSems] = EmptyCell
          /\ T[i + 1][BaseCount(T) + NumSems + 1] = <<"\"", "Y", "\"">>

\* C7: convertJsonFileToCsv never rejects: a failure of the read, the parse,
\* the conversion or the write goes to the catch clause, and a finished call
\* has logged exactly one of the success message and the error diagnostic,
\* the diagnostic exactly when a statement threw.
C7_NeverRaises ==
    /\ ~rejected
    /\ Len(console) <= 1
    /\ error # "none" => pc \in {"catch", "done"}
    /\ pc = "done" =>
          /\ Len(console) = 1
          /\ console[1] = "error" <=> error # "none"
          /\ console[1] = "log" <=> error = "none"

\* the write failed, and the call finished with the diagnostic
C7_Witness ==
    /\ pc = "done"
    /\ error = "write"
    /\ StepDone("write", FALSE)
    /\ console = <<"error">>
    /\ ~rejected

\* the file holds a JSON array whose elements are all objects
WellFormedArrayOfObjects ==
    InputIsArray /\ \A i \in 1..Len(inFile.v.a) : inFile.v.a[i].t = "obj"

\* C8, as claimed: when the content read is not a well-formed JSON array of
\* objects the call fails: it never gets to the write or to the success
\* message, the output file stays as it was, and it ends with the error
\* diagnostic logged.
C8_RejectsNonArrays ==
    (StepDone("read", TRUE) /\ ~WellFormedArrayOfObjects) =>
        /\ pc \notin {"write", "log"}
        /\ ~Attempted("write")
        /\ outFile = OldContent
        /\ console # <<"log">>
        /\ pc = "done" => console = <<"error">>

\* C9, as claimed: a cell is made from the field's own value whenever the
\* field is present (0 and false included), and is the empty quoted text
\* only when the field is missing.
C9_OnlyMissingIsEmpty ==
    ConvertedRows =>
        LET T == OutputTable IN
        \A i \in ObjectRows : \A j \in 1..Len(T[1]) :
            /\ SourceValue(T, i, j) # Undefined =>
                  T[i + 1][j] = JSONstringify(SourceValue(T, i, j))
            /\ T[i + 1][j] = EmptyCell =>
                  SourceValue(T, i, j) \in {Undefined, Str(<<>>)}

StepOrder == <<"read", "parse", "convert", "write", "log">>

\* C10: the statements run in the order read, parse, convert, write, log,
\* each only after the ones before it completed normally; the output file is
\* written at most once and is unchanged unless read, parse and conversion
\* succeeded; the success message is logged only after the write resolved.
C10_StepOrder ==
    /\ Len(steps) <= Len(StepOrder)
    /\ \A i \in 1..Len(steps) :
          /\ steps[i][1] = StepOrder[i]
          /\ i < Len(steps) => steps[i][2]
    /\ Cardinality({i \in 1..Len(steps) : steps[i][1] = "write"}) <= 1
    /\ ~Attempted("write") => outFile = OldContent
    /\ Attempted("write") =>
          StepDone("read", TRUE) /\ StepDone("parse", TRUE) /\ StepDone("convert", TRUE)
    /\ console = <<"log">> =>
          /\ StepDone("write", TRUE)
          /\ outFile = csvData

\* a full run on a non-empty array: the file holds the text, then the message
C10_Witness ==
    /\ pc = "done"
    /\ InputIsArray /\ Len(inFile.v.a) >= 1
    /\ steps = [i \in 1..5 |-> <<StepOrder[i], TRUE>>]
    /\ outFile = csvData
    /\ console = <<"log">>

====
